---- MODULE Spec2Model ----
(***************************************************************************)
(* A model of script.js: the clipboard-paste pipeline that converts pasted *)
(* rich text to Markdown and inserts it into the #editor textarea.         *)
(*                                                                         *)
(* Text is a sequence of one-character strings.  A DOM tree is an arena:   *)
(* a sequence of node records, a node's identity being its index.          *)
(***************************************************************************)
EXTENDS Naturals, Sequences, FiniteSets, TLC

VARIABLES
    value,            \* editor.value
    selectionStart,   \* editor.selectionStart
    selectionEnd,     \* editor.selectionEnd
    clipboard,        \* what the paste event carries: [html, plain]
    phase,            \* position of the program
    pending,          \* paste listeners the dispatch has still to call
    defaultPrevented, \* event.defaultPrevented
    snapshot,         \* the textarea when the paste event was dispatched
    calls,            \* the calls of insertTextAtCursor made for this event
    sanitized,        \* tempDiv after the attribute loop (last listener run)
    rewritten,        \* tempDiv after the 'p, li' loop
    tempDiv,          \* tempDiv after the td -> th loop
    converted,        \* what turndownService.turndown returned
    markdown,         \* converted after markdown.replace
    table,            \* a logical table: [headers, bodyRows]
    rendered          \* the table rules' output for table

vars == <<value, selectionStart, selectionEnd, clipboard, phase, pending,
          defaultPrevented, snapshot, calls, sanitized, rewritten, tempDiv,
          converted, markdown, table, rendered>>

(***************************************************************************)
(* Bounds of the model.                                                    *)
(***************************************************************************)
MaxValueLen == 2
MaxMarkdownLen == 6

(***************************************************************************)
(* Text helpers: the String methods the script uses.                       *)
(***************************************************************************)
Min(a, b) == IF a < b THEN a ELSE b
Max(a, b) == IF a > b THEN a ELSE b

Strings(A, n) == UNION {[1..k -> A] : k \in 0..n}

\* String.prototype.slice(begin, end) for non-negative arguments
Slice(s, begin, end) ==
    LET from == Min(begin, Len(s))
        to == Min(end, Len(s))
    IN  IF from >= to THEN <<>> ELSE SubSeq(s, from + 1, to)

\* String.prototype.slice(begin) and substring(begin)
SliceFrom(s, begin) == Slice(s, begin, Len(s))

Digits == {"0", "1", "2", "3", "4", "5", "6", "7", "8", "9"}
IsDigit(c) == c \in Digits
\* \s of a regular expression, over the characters the model uses
IsSpace(c) == c \in {" ", "\n", "\t"}

(***************************************************************************)
(* The textarea sink.  The DOM setters are modelled as HTML defines them:  *)
(* assigning value moves the cursor to the end of the text, assigning      *)
(* selectionEnd or selectionStart sets the selection range.                *)
(***************************************************************************)
Textarea == [value |-> value, selectionStart |-> selectionStart,
             selectionEnd |-> selectionEnd]

SetSelectionRange(t, start, end) ==
    LET e == Min(end, Len(t.value))
        s == Min(Min(start, Len(t.value)), e)
    IN  [t EXCEPT !.selectionStart = s, !.selectionEnd = e]

SetValue(t, v) ==
    IF v = t.value THEN t
    ELSE [value |-> v, selectionStart |-> Len(v), selectionEnd |-> Len(v)]

SetSelectionEnd(t, end) == SetSelectionRange(t, t.selectionStart, end)

SetSelectionStart(t, start) ==
    SetSelectionRange(t, start, Max(t.selectionEnd, start))

\* the slip of collapsing the cursor after the end of the old selection
insertTextAtCursorFromEnd(textarea, text) ==
    LET t1 == SetValue(textarea,
                  Slice(textarea.value, 0, textarea.selectionStart) \o text
                      \o SliceFrom(textarea.value, textarea.selectionEnd))
        t2 == SetSelectionEnd(t1, textarea.selectionEnd + Len(text))
    IN  SetSelectionStart(t2, textarea.selectionEnd + Len(text))

insertTextAtCursor(textarea, text) ==
    LET start == textarea.selectionStart
        end == textarea.selectionEnd
        old == textarea.value
        t1 == SetValue(textarea,
                  Slice(old, 0, start) \o text \o SliceFrom(old, end))
        \* a = b = x assigns b first
        t2 == SetSelectionEnd(t1, start + Len(text))
    IN  SetSelectionStart(t2, start + Len(text))

(***************************************************************************)
(* The ordinal fix-up: markdown.replace(/(\d)\\\./g, '$1.')                *)
(***************************************************************************)
OrdinalAt(s, i) ==
    /\ i + 2 <= Len(s)
    /\ IsDigit(s[i])
    /\ s[i + 1] = "\\"
    /\ s[i + 2] = "."

\* the start of the first match at or after position i; 0 when there is none
NextMatch(s, i) ==
    IF \E j \in i..Len(s) : OrdinalAt(s, j)
    THEN CHOOSE j \in i..Len(s) :
             OrdinalAt(s, j) /\ \A k \in i..(j - 1) : ~OrdinalAt(s, k)
    ELSE 0

\* a global replace: each match, found from the end of the one before, is
\* replaced by '$1.'; the text between the matches is copied
RECURSIVE ReplaceFrom(_, _)
ReplaceFrom(s, i) ==
    LET j == NextMatch(s, i)
    IN  IF j = 0 THEN SubSeq(s, i, Len(s))
        ELSE SubSeq(s, i, j) \o <<".">> \o ReplaceFrom(s, j + 3)

\* the slip of a pattern without the g flag: only the first match is replaced
OrdinalFixUpFirstOnly(s) ==
    IF \E i \in 1..Len(s) : OrdinalAt(s, i)
    THEN LET i == CHOOSE j \in 1..Len(s) :
                      OrdinalAt(s, j) /\ \A k \in 1..(j - 1) : ~OrdinalAt(s, k)
         IN  SubSeq(s, 1, i) \o <<".">> \o SubSeq(s, i + 3, Len(s))
    ELSE s

OrdinalFixUp(s) == ReplaceFrom(s, 1)

(***************************************************************************)
(* The table rules.  Both take a logical table: the header cells and the   *)
(* body rows, each cell the text cleanCellContent (first rule) or          *)
(* innerHTML.replace(...).trim() (second rule) gave.                       *)
(***************************************************************************)
MaxCols == 2
MaxRows == 1

Range(s) == {s[i] : i \in DOMAIN s}
SetMax(S) == CHOOSE m \in S : \A x \in S : x <= m

\* String.prototype.split('\n')
RECURSIVE Split(_)
Split(s) ==
    IF \A i \in DOMAIN s : s[i] # "\n" THEN <<s>>
    ELSE LET i == CHOOSE j \in DOMAIN s :
                      s[j] = "\n" /\ \A k \in 1..(j - 1) : s[k] # "\n"
         IN  <<SubSeq(s, 1, i - 1)>> \o Split(SubSeq(s, i + 1, Len(s)))

\* s.split('\n').reduce((max, line) => Math.max(max, line.length), 0)
LongestLine(s) == SetMax({Len(l) : l \in Range(Split(s))} \cup {0})

Repeat(c, n) == [i \in 1..n |-> c]

\* String.prototype.padEnd(width); width 0 stands for an undefined width
PadEnd(s, width) == IF Len(s) >= width THEN s ELSE s \o Repeat(" ", width - Len(s))

\* Array.prototype.join
RECURSIVE Join(_, _)
Join(parts, sep) ==
    IF parts = <<>> THEN <<>>
    ELSE IF Len(parts) = 1 THEN parts[1]
    ELSE parts[1] \o sep \o Join(Tail(parts), sep)

\* row[i] of a row that may be shorter: undefined is falsy, as is ''
CellOr(row, i) == IF i \in DOMAIN row THEN row[i] ELSE <<>>

\* colWidths[j] of a column that may not exist: padEnd(undefined) pads nothing
WidthOr(widths, j) == IF j \in DOMAIN widths THEN widths[j] ELSE 0

Line(cells) == <<"|", " ">> \o Join(cells, <<" ", "|", " ">>) \o <<" ", "|">>

\* first rule (v2): the widest line of the header and of every body cell
colWidths(headers, bodyRows) ==
    [i \in DOMAIN headers |->
        LET headerWidth == LongestLine(headers[i])
            bodyWidths == {LongestLine(CellOr(bodyRows[r], i)) : r \in DOMAIN bodyRows}
        IN  SetMax({headerWidth} \cup bodyWidths \cup {3})]

headerCells(headers, widths) ==
    [i \in DOMAIN headers |-> PadEnd(headers[i], widths[i])]

separatorCells(widths) == [i \in DOMAIN widths |-> Repeat("-", widths[i])]

\* lines[i] || '' of a cell's lines
LineOr(lines, i) == IF i \in DOMAIN lines THEN lines[i] ELSE <<>>

\* first rule: Math.max(1, ...row.map(cell => (cell || '').split('\n').length))
maxLinesInRow(row) == SetMax({Len(Split(row[j])) : j \in DOMAIN row} \cup {1})

\* second rule: Math.max(...row.map(...)) is -Infinity for a row without
\* cells, and the loop then runs no time
maxLines(row) == SetMax({Len(Split(row[j])) : j \in DOMAIN row} \cup {0})

rowOutput(row, widths, nLines) ==
    [i \in 1..nLines |->
        [j \in DOMAIN row |-> PadEnd(LineOr(Split(row[j]), i), WidthOr(widths, j))]]

\* the lines of all body rows, each a sequence of cells
RECURSIVE bodyLinesV2(_, _)
bodyLinesV2(bodyRows, widths) ==
    IF bodyRows = <<>> THEN <<>>
    ELSE rowOutput(bodyRows[1], widths, maxLinesInRow(bodyRows[1]))
             \o bodyLinesV2(Tail(bodyRows), widths)

RECURSIVE bodyLinesOld(_, _)
bodyLinesOld(bodyRows, widths) ==
    IF bodyRows = <<>> THEN <<>>
    ELSE rowOutput(bodyRows[1], widths, maxLines(bodyRows[1]))
             \o bodyLinesOld(Tail(bodyRows), widths)

\* rows.map(...).join('\n'): a row that gave no line still gives ''
RECURSIVE RowTexts(_, _, _)
RowTexts(bodyRows, widths, second) ==
    IF bodyRows = <<>> THEN <<>>
    ELSE LET row == bodyRows[1]
             n == IF second THEN maxLines(row) ELSE maxLinesInRow(row)
             lines == rowOutput(row, widths, n)
         IN  <<Join([i \in 1..n |-> Line(lines[i])], <<"\n">>)>>
                 \o RowTexts(Tail(bodyRows), widths, second)

\* second rule: the header counts with its whole length, line breaks included
colWidthsOld(headers, rows) ==
    [i \in DOMAIN headers |->
        SetMax({Len(headers[i])}
                   \cup {LongestLine(CellOr(rows[r], i)) : r \in DOMAIN rows}
                   \cup {3})]

TableText(headers, bodyRows, widths, second) ==
    <<"\n", "\n">> \o Line(headerCells(headers, widths)) \o <<"\n">>
        \o Line(separatorCells(widths)) \o <<"\n">>
        \o Join(RowTexts(bodyRows, widths, second), <<"\n">>) \o <<"\n", "\n">>

\* what the first rule computes for a logical table
RenderV2(t) ==
    LET widths == colWidths(t.headers, t.bodyRows)
    IN  [colWidths |-> widths,
         headerCells |-> headerCells(t.headers, widths),
         separatorCells |-> separatorCells(widths),
         bodyLines |-> bodyLinesV2(t.bodyRows, widths),
         text |-> TableText(t.headers, t.bodyRows, widths, FALSE)]

\* what the second rule computes for a logical table
RenderOld(t) ==
    LET widths == colWidthsOld(t.headers, t.bodyRows)
    IN  [colWidths |-> widths,
         headerCells |-> headerCells(t.headers, widths),
         separatorCells |-> separatorCells(widths),
         bodyLines |-> bodyLinesOld(t.bodyRows, widths),
         text |-> TableText(t.headers, t.bodyRows, widths, TRUE)]

(***************************************************************************)
(* The DOM.  A node is [tag, attrs, kids, text, checked]: tag is the node  *)
(* name in lower case ("#text" for a text node), attrs the attributes in   *)
(* order, kids the child nodes in order, checked an input's checkedness.   *)
(* Markup is given as the tree the HTML parser builds of it.               *)
(***************************************************************************)
El(tag, attrs, kids) == [tag |-> tag, attrs |-> attrs, kids |-> kids, text |-> <<>>]
Txt(text) == [tag |-> "#text", attrs |-> <<>>, kids |-> <<>>, text |-> text]
Attr(name, v) == [name |-> name, value |-> v]

NewNode(tag, attrs, text, checked) ==
    [tag |-> tag, attrs |-> attrs, kids |-> <<>>, text |-> text, checked |-> checked]

IsElement(n) == n.tag # "#text"

\* the number of nodes the parser builds of a list of markup
RECURSIVE Count(_)
Count(ms) ==
    IF ms = <<>> THEN 0 ELSE 1 + Count(Head(ms).kids) + Count(Tail(ms))

\* the ids of the children of a node whose first child gets id first
KidIds(ms, first) == [k \in 1..Len(ms) |-> first + Count(SubSeq(ms, 1, k - 1))]

\* the nodes built of a list of markup, in document order from id first
RECURSIVE AddKids(_, _)
AddKids(ms, first) ==
    IF ms = <<>> THEN <<>>
    ELSE LET m == Head(ms)
         IN  <<[NewNode(m.tag, m.attrs, m.text, FALSE)
                    EXCEPT !.kids = KidIds(m.kids, first + 1)]>>
             \o AddKids(m.kids, first + 1)
             \o AddKids(Tail(ms), first + 1 + Count(m.kids))

\* document.createElement('div'); tempDiv.innerHTML = html: node 1 is tempDiv
Parse(html) ==
    <<[NewNode("div", <<>>, <<>>, FALSE) EXCEPT !.kids = KidIds(html, 2)]>>
    \o AddKids(html, 2)

RECURSIVE DescList(_, _)
DescList(dom, ks) ==
    IF ks = <<>> THEN <<>>
    ELSE <<Head(ks)>> \o DescList(dom, dom[Head(ks)].kids) \o DescList(dom, Tail(ks))

\* the descendants of a node, in document order
Descendants(dom, id) == DescList(dom, dom[id].kids)

\* node.parentNode; 0 is null
ParentOf(dom, id) ==
    IF \E p \in DOMAIN dom : id \in Range(dom[p].kids)
    THEN CHOOSE p \in DOMAIN dom : id \in Range(dom[p].kids)
    ELSE 0

RECURSIVE Ancestors(_, _)
Ancestors(dom, id) ==
    LET p == ParentOf(dom, id)
    IN  IF p = 0 THEN {} ELSE {p} \cup Ancestors(dom, p)

ElementKids(dom, id) == SelectSeq(dom[id].kids, LAMBDA k : IsElement(dom[k]))

\* root.querySelectorAll('*')
AllElements(dom, root) ==
    SelectSeq(Descendants(dom, root), LAMBDA k : IsElement(dom[k]))

RECURSIVE TextOfList(_, _)
TextOfList(dom, ks) ==
    IF ks = <<>> THEN <<>>
    ELSE (IF IsElement(dom[Head(ks)]) THEN TextOfList(dom, dom[Head(ks)].kids)
          ELSE dom[Head(ks)].text) \o TextOfList(dom, Tail(ks))

\* node.textContent
TextContent(dom, id) ==
    IF IsElement(dom[id]) THEN TextOfList(dom, dom[id].kids) ELSE dom[id].text

HasAttr(n, name) == \E i \in DOMAIN n.attrs : n.attrs[i].name = name
GetAttr(n, name) ==
    IF HasAttr(n, name)
    THEN (CHOOSE a \in Range(n.attrs) : a.name = name).value
    ELSE <<>>

\* an attribute's value is the sequence of its space-separated tokens
\* the tokens of the class attribute
ClassList(n) == IF HasAttr(n, "class") THEN GetAttr(n, "class") ELSE <<>>
ClassContains(n, token) == token \in Range(ClassList(n))

(***************************************************************************)
(* The sanitizer: the attribute loop over tempDiv.querySelectorAll('*').   *)
(***************************************************************************)
allowedAttrs == {"href", "src", "alt", "title", "class"}

\* String.prototype.toLowerCase on the attribute names of the model
ToLowerCase(name) ==
    CASE name = "viewBox" -> "viewbox"
      [] OTHER -> name

\* el.removeAttribute(name)
removeAttribute(attrs, name) == SelectSeq(attrs, LAMBDA a : a.name # name)

\* for (const attr of Array.from(el.attributes)) ...
RECURSIVE StripAttrs(_, _)
StripAttrs(listed, attrs) ==
    IF listed = <<>> THEN attrs
    ELSE IF ToLowerCase(Head(listed).name) \notin allowedAttrs
         THEN StripAttrs(Tail(listed), removeAttribute(attrs, Head(listed).name))
         ELSE StripAttrs(Tail(listed), attrs)

\* the slip of a deny-list: only the attributes known to be bad are removed
SanitizeDenyList(dom) ==
    [i \in DOMAIN dom |->
        [dom[i] EXCEPT !.attrs =
            SelectSeq(@, LAMBDA a : a.name \notin {"style", "onclick"})]]

Sanitize(dom) ==
    LET els == Range(AllElements(dom, 1))
    IN  [i \in DOMAIN dom |->
            IF i \in els
            THEN [dom[i] EXCEPT !.attrs = StripAttrs(@, @)]
            ELSE dom[i]]

(***************************************************************************)
(* The 'p, li' loop: bracket text to a checkbox, then <li><p> unwrapping.  *)
(***************************************************************************)
\* the number of \s characters of s from position from on (a greedy \s*)
SpacesAt(s, from) ==
    CHOOSE n \in 0..Len(s) :
        /\ from + n <= Len(s) + 1
        /\ \A k \in from..(from + n - 1) : IsSpace(s[k])
        /\ (from + n > Len(s) \/ ~IsSpace(s[from + n]))

\* nodeValue.match(/^\s*(\[([ x])\])\s*/i): match[0].length and match[2]
Match(s) ==
    LET lead == SpacesAt(s, 1)
        found == /\ lead + 3 <= Len(s)
                 /\ s[lead + 1] = "["
                 /\ s[lead + 2] \in {" ", "x", "X"}
                 /\ s[lead + 3] = "]"
    IN  IF found
        THEN [found |-> TRUE, length |-> lead + 3 + SpacesAt(s, lead + 4),
              mark |-> s[lead + 2]]
        ELSE [found |-> FALSE, length |-> 0, mark |-> " "]

\* the checkbox the loop creates: type and disabled are attributes, checked
\* is the element's checkedness
NewCheckbox(isChecked) ==
    NewNode("input", <<Attr("type", <<"checkbox">>), Attr("disabled", <<>>)>>,
            <<>>, isChecked)

\* the slip of reading the bracket character without the i flag's lower-casing
DetectCheckboxCaseSensitive(dom, el) ==
    LET kids == dom[el].kids
    IN  IF kids # <<>> /\ ~IsElement(dom[kids[1]]) /\ Match(dom[kids[1]].text).found
        THEN LET m == Match(dom[kids[1]].text)
                 id == Len(dom) + 1
                 d1 == [dom EXCEPT ![kids[1]].text = SliceFrom(@, m.length),
                                   ![el].kids = <<id>> \o @]
             IN  Append(d1, NewCheckbox(m.mark = "x"))
        ELSE dom

\* lines 194-209: the checkbox goes before the text node it was read from
DetectCheckbox(dom, el) ==
    LET kids == dom[el].kids
    IN  IF kids # <<>> /\ ~IsElement(dom[kids[1]]) /\ Match(dom[kids[1]].text).found
        THEN LET m == Match(dom[kids[1]].text)
                 id == Len(dom) + 1
                 d1 == [dom EXCEPT ![kids[1]].text = SliceFrom(@, m.length),
                                   ![el].kids = <<id>> \o @]
             IN  Append(d1, NewCheckbox(m.mark \in {"x", "X"}))
        ELSE dom

\* el.querySelector('input[type="checkbox"]') finds one
HasCheckbox(dom, el) ==
    \E k \in Range(Descendants(dom, el)) :
        dom[k].tag = "input" /\ GetAttr(dom[k], "type") = <<"checkbox">>

IndexOf(seq, x) == CHOOSE i \in DOMAIN seq : seq[i] = x

\* while (el.firstChild) parentLi.insertBefore(el.firstChild, el);
\* parentLi.removeChild(el)
UnwrapInto(dom, parentLi, el) ==
    LET at == IndexOf(dom[parentLi].kids, el)
        ks == dom[parentLi].kids
    IN  [dom EXCEPT ![parentLi].kids =
                        SubSeq(ks, 1, at - 1) \o dom[el].kids
                            \o SubSeq(ks, at + 1, Len(ks)),
                    ![el].kids = <<>>]

\* the slip of unwrapping only a paragraph that is the sole element child
UnwrapSoleChildOnly(dom, el) ==
    LET parent == ParentOf(dom, el)
        pInLi == dom[el].tag = "p" /\ parent # 0 /\ dom[parent].tag = "li"
    IN  IF pInLi /\ HasCheckbox(dom, el) /\ Len(ElementKids(dom, parent)) = 1
        THEN UnwrapInto(dom, parent, el)
        ELSE dom

\* lines 211-219
Unwrap(dom, el) ==
    LET parent == ParentOf(dom, el)
        pInLi == dom[el].tag = "p" /\ parent # 0 /\ dom[parent].tag = "li"
    IN  IF pInLi /\ HasCheckbox(dom, el)
        THEN UnwrapInto(dom, parent, el)
        ELSE dom

RECURSIVE ForEachPLi(_, _)
ForEachPLi(dom, list) ==
    IF list = <<>> THEN dom
    ELSE ForEachPLi(Unwrap(DetectCheckbox(dom, Head(list)), Head(list)), Tail(list))

\* tempDiv.querySelectorAll('p, li').forEach(...): the list is static
RewriteLists(dom) ==
    ForEachPLi(dom, SelectSeq(Descendants(dom, 1),
                              LAMBDA k : dom[k].tag \in {"p", "li"}))

(***************************************************************************)
(* The td -> th loop over 'table:not(:has(thead)) tr:first-child td'.      *)
(***************************************************************************)
\* :first-child: the first element among the parent's children
IsFirstChild(dom, id) ==
    LET p == ParentOf(dom, id)
    IN  p # 0 /\ ElementKids(dom, p)[1] = id

HasDescendantTag(dom, id, tag) ==
    \E k \in Range(Descendants(dom, id)) : dom[k].tag = tag

\* td matches 'table:not(:has(thead)) tr:first-child td'
MatchesFirstRowTd(dom, td) ==
    /\ dom[td].tag = "td"
    /\ \E tr \in Ancestors(dom, td) :
          /\ dom[tr].tag = "tr"
          /\ IsFirstChild(dom, tr)
          /\ \E t \in Ancestors(dom, tr) :
                dom[t].tag = "table" /\ ~HasDescendantTag(dom, t, "thead")

\* th.innerHTML = td.innerHTML: the children are serialized and parsed
\* again, so th gets copies, and a copy of an input is not checked
RECURSIVE CloneKids(_, _, _)
CloneKids(dom, pid, ks) ==
    IF ks = <<>> THEN dom
    ELSE LET src == dom[Head(ks)]
             id == Len(dom) + 1
             d1 == Append([dom EXCEPT ![pid].kids = Append(@, id)],
                          NewNode(src.tag, src.attrs, src.text, FALSE))
         IN  CloneKids(CloneKids(d1, id, src.kids), pid, Tail(ks))

\* lines 224-226; td.parentNode is td's parent at that moment, in the live
\* tree or in a subtree an earlier replaceChild detached
PromoteCell(dom, td) ==
    LET th == Len(dom) + 1
        d1 == CloneKids(Append(dom, NewNode("th", <<>>, <<>>, FALSE)), th, dom[td].kids)
        parent == ParentOf(dom, td)
        at == IndexOf(dom[parent].kids, td)
    IN  [d1 EXCEPT ![parent].kids = [@ EXCEPT ![at] = th]]

RECURSIVE ForEachTd(_, _)
ForEachTd(dom, list) ==
    IF list = <<>> THEN dom
    ELSE ForEachTd(PromoteCell(dom, Head(list)), Tail(list))

InferHeaders(dom) ==
    ForEachTd(dom, SelectSeq(Descendants(dom, 1),
                             LAMBDA k : MatchesFirstRowTd(dom, k)))

(***************************************************************************)
(* The conversion engine (TurndownService) as far as the script drives it: *)
(* the rule registry, the choice of a rule for a node, the traversal and   *)
(* the joining of the pieces.  Of the engine's own rules only paragraph,   *)
(* and of the GFM plugin's only taskListItems, are spelled out; every      *)
(* other node falls to the default rule.                                   *)
(***************************************************************************)
Reverse(s) == [i \in 1..Len(s) |-> s[Len(s) + 1 - i]]

\* the addRule and use calls of the script, in the order it makes them
Registered ==
    <<"br", "taskListItems", "fencedCodeBlock", "tightListItem", "table",
      "inlineCode", "math">>

\* Rules.add puts a rule in front of those added before it; the engine's
\* own rules come after all added ones
RuleArray == Reverse(Registered) \o <<"paragraph">>

VoidTags == {"br", "input", "img", "hr"}
MeaningfulWhenBlank == {"a", "table", "thead", "tbody", "tfoot", "th", "td"}
BlockTags == {"div", "p", "ul", "ol", "li", "table", "thead", "tbody", "tfoot",
              "tr", "th", "td", "pre"}

\* the filter of each rule
Filter(rule, dom, id) ==
    LET node == dom[id]
        parent == ParentOf(dom, id)
    IN  CASE rule = "br" -> node.tag = "br"
          [] rule = "taskListItems" ->
                /\ node.tag = "input"
                /\ GetAttr(node, "type") = <<"checkbox">>
                /\ parent # 0 /\ dom[parent].tag = "li"
          [] rule = "fencedCodeBlock" ->
                /\ node.tag = "pre"
                /\ node.kids # <<>>
                /\ dom[node.kids[1]].tag = "code"
          [] rule = "tightListItem" ->
                /\ node.tag = "p"
                /\ parent # 0 /\ dom[parent].tag = "li"
                /\ Len(ElementKids(dom, parent)) = 1
          [] rule = "table" -> node.tag = "table"
          [] rule = "inlineCode" -> node.tag \in {"code", "samp"}
          [] rule = "math" ->
                ClassContains(node, "math-inline") \/ ClassContains(node, "math-block")
          [] rule = "paragraph" -> node.tag = "p"
          [] OTHER -> FALSE

AllSpace(s) == \A i \in DOMAIN s : IsSpace(s[i])

\* node.isBlank
IsBlank(dom, id) ==
    /\ dom[id].tag \notin VoidTags
    /\ dom[id].tag \notin MeaningfulWhenBlank
    /\ AllSpace(TextContent(dom, id))
    /\ \A k \in Range(Descendants(dom, id)) :
          dom[k].tag \notin VoidTags /\ dom[k].tag \notin MeaningfulWhenBlank

\* Rules.forNode: the blank rule, else the first rule of the array whose
\* filter matches, else the default rule
ForNode(dom, id) ==
    IF IsBlank(dom, id) THEN "blank"
    ELSE IF \E i \in DOMAIN RuleArray : Filter(RuleArray[i], dom, id)
    THEN RuleArray[CHOOSE i \in DOMAIN RuleArray :
                       /\ Filter(RuleArray[i], dom, id)
                       /\ \A j \in 1..(i - 1) : ~Filter(RuleArray[j], dom, id)]
    ELSE "default"

\* String.prototype.trim
RECURSIVE TrimStart(_)
TrimStart(s) == IF s # <<>> /\ IsSpace(Head(s)) THEN TrimStart(Tail(s)) ELSE s
RECURSIVE TrimEnd(_)
TrimEnd(s) ==
    IF s # <<>> /\ IsSpace(s[Len(s)]) THEN TrimEnd(SubSeq(s, 1, Len(s) - 1)) ELSE s
Trim(s) == TrimEnd(TrimStart(s))

RECURSIVE TrimLeadingNewlines(_)
TrimLeadingNewlines(s) ==
    IF s # <<>> /\ Head(s) = "\n" THEN TrimLeadingNewlines(Tail(s)) ELSE s
RECURSIVE TrimTrailingNewlines(_)
TrimTrailingNewlines(s) ==
    IF s # <<>> /\ s[Len(s)] = "\n"
    THEN TrimTrailingNewlines(SubSeq(s, 1, Len(s) - 1)) ELSE s

\* the engine's join: the newlines where two pieces meet collapse to two
JoinOutput(output, replacement) ==
    LET s1 == TrimTrailingNewlines(output)
        s2 == TrimLeadingNewlines(replacement)
        nls == Max(Len(output) - Len(s1), Len(replacement) - Len(s2))
    IN  s1 \o Repeat("\n", Min(nls, 2)) \o s2

\* the engine's escaping of a text node, for the characters of the model
RECURSIVE EscapeChars(_)
EscapeChars(s) ==
    IF s = <<>> THEN <<>>
    ELSE (IF Head(s) \in {"\\", "[", "]"} THEN <<"\\", Head(s)>> ELSE <<Head(s)>>)
             \o EscapeChars(Tail(s))

LeadingDigits(s) ==
    CHOOSE n \in 0..Len(s) :
        /\ \A k \in 1..n : IsDigit(s[k])
        /\ (n = Len(s) \/ ~IsDigit(s[n + 1]))

\* /^(\d+)\. / becomes '$1\\. '
Escape(s) ==
    LET e == EscapeChars(s)
        n == LeadingDigits(e)
    IN  IF n > 0 /\ n + 2 <= Len(e) /\ e[n + 1] = "." /\ e[n + 2] = " "
        THEN SubSeq(e, 1, n) \o <<"\\">> \o SubSeq(e, n + 1, Len(e))
        ELSE e

\* the grave accent, which a TLA+ string cannot hold
BT == "grave"

\* className.match(/language-(\S+)/) over the class tokens of the model
Language(node) ==
    IF ClassContains(node, "language-js") THEN <<"j", "s">> ELSE <<>>

\* the characters of the element names of the model
NameChars(tag) ==
    CASE tag = "table" -> <<"t", "a", "b", "l", "e">>
      [] tag = "thead" -> <<"t", "h", "e", "a", "d">>
      [] tag = "tbody" -> <<"t", "b", "o", "d", "y">>
      [] tag = "tr" -> <<"t", "r">>
      [] tag = "th" -> <<"t", "h">>
      [] tag = "td" -> <<"t", "d">>
      [] tag = "br" -> <<"b", "r">>
      [] tag = "span" -> <<"s", "p", "a", "n">>
      [] tag = "input" -> <<"i", "n", "p", "u", "t">>
      [] OTHER -> <<tag>>

\* the serialization of a text node
EscapeHtml(text) ==
    [i \in DOMAIN text |->
        CASE text[i] = "&" -> "&amp;"
          [] text[i] = "<" -> "&lt;"
          [] text[i] = ">" -> "&gt;"
          [] OTHER -> text[i]]

\* the serialization of attributes; a name stands as one token
RECURSIVE AttrChars(_)
AttrChars(attrs) ==
    IF attrs = <<>> THEN <<>>
    ELSE <<" ", Head(attrs).name, "=", "\"">> \o Head(attrs).value \o <<"\"">>
             \o AttrChars(Tail(attrs))

\* cell.innerHTML: the serialization of the nodes ks
RECURSIVE Serialize(_, _)
Serialize(dom, ks) ==
    IF ks = <<>> THEN <<>>
    ELSE LET n == dom[Head(ks)]
         IN  (IF ~IsElement(n) THEN EscapeHtml(n.text)
              ELSE <<"<">> \o NameChars(n.tag) \o AttrChars(n.attrs) \o <<">">>
                     \o (IF n.tag \in VoidTags THEN <<>>
                         ELSE Serialize(dom, n.kids) \o <<"<", "/">>
                                  \o NameChars(n.tag) \o <<">">>))
             \o Serialize(dom, Tail(ks))
innerHTML(dom, id) == Serialize(dom, dom[id].kids)

\* the length of a match of /<br\s*\/?>/i at place i of s, 0 for none
BrAt(s, i) ==
    IF i + 3 <= Len(s) /\ s[i] = "<" /\ s[i + 1] \in {"b", "B"} /\ s[i + 2] \in {"r", "R"}
    THEN LET j == i + 3 + SpacesAt(s, i + 3)
         IN  IF j <= Len(s) /\ s[j] = ">" THEN j - i + 1
             ELSE IF j + 1 <= Len(s) /\ s[j] = "/" /\ s[j + 1] = ">" THEN j - i + 2
             ELSE 0
    ELSE 0

\* html.replace(/<br\s*\/?>/gi, '\n')
RECURSIVE ReplaceBr(_)
ReplaceBr(s) ==
    IF \E i \in DOMAIN s : BrAt(s, i) > 0
    THEN LET i == CHOOSE k \in DOMAIN s :
                      BrAt(s, k) > 0 /\ \A j \in 1..(k - 1) : BrAt(s, j) = 0
         IN  SubSeq(s, 1, i - 1) \o <<"\n">>
                 \o ReplaceBr(SubSeq(s, i + BrAt(s, i), Len(s)))
    ELSE s

\* the text of the tree the replaced serialization parses to: the tree of
\* the cell, but for each <br> without attributes, now a line break
RECURSIVE CellTextOfList(_, _)
CellTextOfList(dom, ks) ==
    IF ks = <<>> THEN <<>>
    ELSE (IF dom[Head(ks)].tag = "br" /\ dom[Head(ks)].attrs = <<>> THEN <<"\n">>
          ELSE IF IsElement(dom[Head(ks)]) THEN CellTextOfList(dom, dom[Head(ks)].kids)
          ELSE dom[Head(ks)].text) \o CellTextOfList(dom, Tail(ks))

\* cleanCellContent of the first rule (lines 84-89)
cleanCellContent(dom, cell) == Trim(CellTextOfList(dom, dom[cell].kids))

\* the cell text of the second rule: the serialization itself
cellHtml(dom, cell) == Trim(ReplaceBr(innerHTML(dom, cell)))

\* row.cells
Cells(dom, tr) == SelectSeq(dom[tr].kids, LAMBDA k : dom[k].tag \in {"td", "th"})
\* section.rows
Rows(dom, section) == SelectSeq(dom[section].kids, LAMBDA k : dom[k].tag = "tr")
RowTextsOf(dom, rows) ==
    [r \in DOMAIN rows |->
        LET cells == Cells(dom, rows[r])
        IN  [c \in DOMAIN cells |-> cleanCellContent(dom, cells[c])]]
RowHtmlOf(dom, rows) ==
    [r \in DOMAIN rows |->
        LET cells == Cells(dom, rows[r])
        IN  [c \in DOMAIN cells |-> cellHtml(dom, cells[c])]]

\* the first script block's table rule
TableRuleV2(dom, id) ==
    LET allRows == SelectSeq(Descendants(dom, id), LAMBDA k : dom[k].tag = "tr")
        texts == RowTextsOf(dom, allRows)
    IN  IF allRows = <<>> THEN <<>>
        ELSE RenderV2([headers |-> Head(texts), bodyRows |-> Tail(texts)]).text

\* the second script block's table rule.  thead.rows[0] of a thead without
\* a row is undefined and its .cells throws; no thead of the model is empty
TableRuleOld(content, dom, id) ==
    LET theads == SelectSeq(Descendants(dom, id), LAMBDA k : dom[k].tag = "thead")
        tbodies == SelectSeq(Descendants(dom, id), LAMBDA k : dom[k].tag = "tbody")
    IN  IF theads = <<>> \/ tbodies = <<>> \/ Rows(dom, Head(theads)) = <<>>
        THEN content
        ELSE RenderOld([headers |-> RowHtmlOf(dom, Rows(dom, Head(theads)))[1],
                        bodyRows |-> RowHtmlOf(dom, Rows(dom, Head(tbodies)))]).text

\* the replacement of each rule; block is 1 or 2, the script block whose
\* service converts
Replacement(rule, content, dom, id, block) ==
    LET node == dom[id]
    IN  CASE rule = "blank" -> <<"\n", "\n">>
          [] rule = "br" -> <<"\n">>
          [] rule = "taskListItems" ->
                (IF node.checked THEN <<"[", "x", "]">> ELSE <<"[", " ", "]">>) \o <<" ">>
          [] rule = "fencedCodeBlock" ->
                <<"\n", "\n", BT, BT, BT>> \o Language(dom[node.kids[1]]) \o <<"\n">>
                    \o TextContent(dom, node.kids[1]) \o <<"\n", BT, BT, BT, "\n", "\n">>
          [] rule = "tightListItem" -> content
          [] rule = "table" ->
                IF block = 1 THEN TableRuleV2(dom, id) ELSE TableRuleOld(content, dom, id)
          [] rule = "inlineCode" ->
                IF BT \in Range(content)
                THEN <<BT, BT, " ">> \o content \o <<" ", BT, BT>>
                ELSE <<BT>> \o content \o <<BT>>
          [] rule = "math" ->
                IF ClassContains(node, "math-inline") THEN <<"$">> \o content \o <<"$">>
                ELSE IF ClassContains(node, "math-block")
                THEN <<"\n", "\n", "$", "$", "\n">> \o content \o <<"\n", "$", "$", "\n", "\n">>
                ELSE content
          [] rule = "paragraph" -> <<"\n", "\n">> \o content \o <<"\n", "\n">>
          [] OTHER ->
                IF node.tag \in BlockTags
                THEN <<"\n", "\n">> \o content \o <<"\n", "\n">>
                ELSE content

\* the engine's join of the replacements of a node's children, left to right
RECURSIVE Reduce(_)
Reduce(pieces) ==
    IF pieces = <<>> THEN <<>>
    ELSE JoinOutput(Reduce(SubSeq(pieces, 1, Len(pieces) - 1)), pieces[Len(pieces)])

RECURSIVE Process(_, _, _)
RECURSIVE ReplacementForNode(_, _, _)
RECURSIVE Pieces(_, _, _)
\* what the conversion emits for each of the nodes ks: a text node is escaped
Pieces(dom, ks, block) ==
    IF ks = <<>> THEN <<>>
    ELSE <<IF IsElement(dom[Head(ks)]) THEN ReplacementForNode(dom, Head(ks), block)
           ELSE Escape(dom[Head(ks)].text)>> \o Pieces(dom, Tail(ks), block)

\* the engine's traversal of the children of a node
Process(dom, id, block) == Reduce(Pieces(dom, dom[id].kids, block))

\* what the conversion emits for one element
ReplacementForNode(dom, id, block) ==
    Replacement(ForNode(dom, id), Process(dom, id, block), dom, id, block)

\* turndownService.turndown(tempDiv): leading line breaks and trailing
\* white space are trimmed
Turndown(dom, block) == TrimEnd(TrimLeadingNewlines(Process(dom, 1, block)))

(***************************************************************************)
(* The paste listeners.  Each script block registers one on #editor, with  *)
(* a conversion service of its own; the two differ in the table rule.      *)
(***************************************************************************)
\* lines 178-231 of a listener: what it computes of the text/html payload
Pipeline(html, block) ==
    LET d1 == Sanitize(Parse(html))
        d2 == RewriteLists(d1)
        d3 == InferHeaders(d2)
        c == Turndown(d3, block)
    IN  [sanitized |-> d1, rewritten |-> d2, tempDiv |-> d3, converted |-> c,
         markdown |-> OrdinalFixUp(c)]

\* the slip of asking for the plain text first
TextToInsertPlainFirst(block) ==
    IF clipboard.plain # <<>> THEN clipboard.plain
    ELSE Pipeline(clipboard.html, block).markdown

\* if (html) { ... markdown } else { text }: an empty string is falsy
TextToInsert(block) ==
    IF clipboard.html # <<>> THEN Pipeline(clipboard.html, block).markdown
    ELSE clipboard.plain

\* the user pastes: the browser dispatches a paste event to #editor, whose
\* listeners run in the order they were registered
Paste ==
    /\ phase \in {"idle", "done"}
    /\ Len(value) <= MaxValueLen
    /\ phase' = "dispatching"
    /\ pending' = <<1, 2>>
    /\ defaultPrevented' = FALSE
    /\ snapshot' = Textarea
    /\ calls' = <<>>
    /\ UNCHANGED <<value, selectionStart, selectionEnd, clipboard, sanitized,
                   rewritten, tempDiv, converted, markdown, table, rendered>>

PasteListener(block) ==
    /\ phase = "dispatching"
    /\ pending # <<>>
    /\ Head(pending) = block
    /\ defaultPrevented' = TRUE
    /\ LET text == TextToInsert(block)
           t == insertTextAtCursor(Textarea, text)
       IN  /\ value' = t.value
           /\ selectionStart' = t.selectionStart
           /\ selectionEnd' = t.selectionEnd
           /\ calls' = Append(calls, [block |-> block, before |-> Textarea, text |-> text])
    /\ IF clipboard.html # <<>>
       THEN LET r == Pipeline(clipboard.html, block)
            IN  /\ sanitized' = r.sanitized
                /\ rewritten' = r.rewritten
                /\ tempDiv' = r.tempDiv
                /\ converted' = r.converted
                /\ markdown' = r.markdown
       ELSE UNCHANGED <<sanitized, rewritten, tempDiv, converted, markdown>>
    /\ pending' = Tail(pending)
    /\ UNCHANGED <<clipboard, phase, snapshot, table, rendered>>

\* the listener of the first script block (lines 172-238)
Listener1 == PasteListener(1)

\* the listener of the second script block (lines 410-476)
Listener2 == PasteListener(2)

\* after the listeners the browser pastes the plain text itself, unless a
\* listener called preventDefault
DefaultAction ==
    /\ phase = "dispatching"
    /\ pending = <<>>
    /\ LET t == IF defaultPrevented THEN Textarea
                ELSE insertTextAtCursor(Textarea, clipboard.plain)
       IN  /\ value' = t.value
           /\ selectionStart' = t.selectionStart
           /\ selectionEnd' = t.selectionEnd
    /\ phase' = "done"
    /\ UNCHANGED <<clipboard, pending, defaultPrevented, snapshot, calls,
                   sanitized, rewritten, tempDiv, converted, markdown, table,
                   rendered>>

Next == Paste \/ Listener1 \/ Listener2 \/ DefaultAction

(***************************************************************************)
(* Initial states.                                                         *)
(***************************************************************************)
S1(a) == <<a>>
S2(a, b) == <<a, b>>
S3(a, b, c) == <<a, b, c>>
S4(a, b, c, d) == <<a, b, c, d>>

NoEvent ==
    /\ phase = "idle"
    /\ pending = <<>>
    /\ defaultPrevented = FALSE
    /\ snapshot = [value |-> <<>>, selectionStart |-> 0, selectionEnd |-> 0]
    /\ calls = <<>>

NoTree ==
    /\ sanitized = <<>>
    /\ rewritten = <<>>
    /\ tempDiv = <<>>
    /\ converted = <<>>
    /\ markdown = <<>>

NoTable ==
    /\ table = [headers |-> <<>>, bodyRows |-> <<>>]
    /\ rendered = [block |-> 0]

EmptyEditor ==
    /\ value = <<>>
    /\ selectionStart = 0
    /\ selectionEnd = 0

\* an editor holding some text, with some selection
AnyEditor ==
    /\ value \in Strings({"a", "b"}, MaxValueLen)
    /\ selectionStart \in 0..Len(value)
    /\ selectionEnd \in selectionStart..Len(value)

PlainTexts == {S2("p", "q"), S3("1", "\\", ".")}

\* a thead with a two-line header cell over one body row
TwoLineHeaderTable ==
    El("table", <<>>,
       S2(El("thead", <<>>,
             S1(El("tr", <<>>,
                   S1(El("th", <<>>,
                         S3(Txt(S1("A")), El("br", <<>>, <<>>), Txt(S2("B", "B")))))))),
          El("tbody", <<>>,
             S1(El("tr", <<>>, S1(El("td", <<>>, S1(Txt(S1("1"))))))))))

SmallHtml ==
    { <<>>,
      S1(Txt(S4("1", ".", " ", "a"))),
      S1(El("span", S1(Attr("class", S1("math-inline"))), S1(Txt(S1("x"))))),
      S1(TwoLineHeaderTable) }

Init ==
    /\ AnyEditor
    /\ clipboard \in [html : SmallHtml, plain : PlainTexts]
    /\ NoEvent /\ NoTree /\ NoTable

Spec == Init /\ [][Next]_vars

(***************************************************************************)
(* Pasted markup with attributes: a paragraph holding a text and one       *)
(* element whose attributes vary.                                          *)
(***************************************************************************)
MaxAttrs == 2

AttrPool ==
    { Attr("href", S1("u")), Attr("class", S1("math-inline")),
      Attr("class", S2("note", "math-block")), Attr("style", S1("s")),
      Attr("onclick", S1("j")), Attr("viewBox", S1("v")),
      Attr("type", S1("checkbox")) }

\* the parser keeps one attribute of a name
AttrLists ==
    { a \in UNION {[1..k -> AttrPool] : k \in 0..MaxAttrs} :
        \A i, j \in DOMAIN a : i # j => a[i].name # a[j].name }

\* the parser gives viewBox to an element of foreign content only
AttrsOf(tag) ==
    { l \in AttrLists : (\E i \in DOMAIN l : l[i].name = "viewBox") => tag = "svg" }

AttrHtml ==
    UNION { { S1(El("p", S2(Attr("style", S1("s")), Attr("title", S1("t"))),
                    S2(Txt(S1("t")), El(tag, a, <<>>)))) : a \in AttrsOf(tag) } :
            tag \in {"a", "br", "input", "svg"} }

InitSanitize ==
    /\ EmptyEditor
    /\ clipboard \in [html : AttrHtml, plain : {S1("t")}]
    /\ NoEvent /\ NoTree /\ NoTable

SpecSanitize == InitSanitize /\ [][Next]_vars

(***************************************************************************)
(* Pasted lists and paragraphs: one list item, or one div, whose children  *)
(* vary.                                                                   *)
(***************************************************************************)
MaxKids == 2

BracketTexts ==
    { S4("[", "x", "]", "a"), S4(" ", "[", "X", "]") \o S2(" ", "a"),
      S4("[", " ", "]", " "), S4("a", "[", "x", "]") }

KidKinds ==
    { Txt(t) : t \in BracketTexts }
        \cup { El("p", <<>>, S1(Txt(t))) : t \in BracketTexts }
        \cup { El("p", <<>>, S1(El("span", <<>>, S1(Txt(S4("[", "x", "]", "a")))))),
               El("p", <<>>, S2(El("input", S1(Attr("type", S1("checkbox"))), <<>>),
                                Txt(S1("a")))),
               El("ul", <<>>, S1(El("li", <<>>, S1(Txt(S4("[", " ", "]", "b")))))) }

ListHtml ==
    { S1(El("ul", <<>>, S1(El(tag, <<>>, kids)))) :
        tag \in {"li", "div"},
        kids \in UNION {[1..k -> KidKinds] : k \in 1..MaxKids} }

InitLists ==
    /\ EmptyEditor
    /\ clipboard \in [html : ListHtml, plain : {S1("t")}]
    /\ NoEvent /\ NoTree /\ NoTable

SpecLists == InitLists /\ [][Next]_vars

(***************************************************************************)
(* Pasted tables: with or without a thead, with one or more tbody, with    *)
(* tables nested in cells.                                                 *)
(***************************************************************************)
MaxBodies == 2

Td(kids) == El("td", <<>>, kids)
Th(kids) == El("th", <<>>, kids)
Tr(cells) == El("tr", <<>>, cells)
TextCell(c) == Td(S1(Txt(S1(c))))

\* a table of two rows, without a head section
InnerPlain ==
    El("table", <<>>,
       S1(El("tbody", <<>>, S2(Tr(S1(TextCell("i"))), Tr(S1(TextCell("j")))))))

\* a table with a head section
InnerWithHead ==
    El("table", <<>>,
       S2(El("thead", <<>>, S1(Tr(S1(Th(S1(Txt(S1("h")))))))),
          El("tbody", <<>>, S1(Tr(S1(TextCell("k")))))))

BodyKinds ==
    { El("tbody", <<>>, S1(Tr(S2(TextCell("a"), TextCell("b"))))),
      El("tbody", <<>>, S2(Tr(S2(Th(S1(Txt(S1("a")))), TextCell("b"))),
                           Tr(S2(TextCell("c"), TextCell("d"))))),
      El("tbody", <<>>, S2(Tr(S1(Td(S1(InnerPlain)))), Tr(S1(TextCell("c"))))),
      El("tbody", <<>>, S1(Tr(S2(Th(S1(InnerPlain)), TextCell("b"))))),
      El("tbody", <<>>, S1(Tr(S1(Td(S1(InnerWithHead)))))) }

Heads == { <<>>, S1(El("thead", <<>>, S1(Tr(S1(Th(S1(Txt(S1("H"))))))))) }

TableHtml ==
    { S1(El("table", <<>>, head \o bodies)) :
        head \in Heads,
        bodies \in UNION {[1..k -> BodyKinds] : k \in 1..MaxBodies} }

InitTables ==
    /\ EmptyEditor
    /\ clipboard \in [html : TableHtml, plain : {S1("t")}]
    /\ NoEvent /\ NoTree /\ NoTable

SpecTables == InitTables /\ [][Next]_vars

(***************************************************************************)
(* The ordinal fix-up alone, on any converted text.                        *)
(***************************************************************************)
FixUpAlphabet == {"1", "\\", ".", "a"}

InitFixUp ==
    /\ EmptyEditor
    /\ clipboard = [html |-> <<>>, plain |-> <<>>]
    /\ NoEvent /\ NoTable
    /\ sanitized = <<>> /\ rewritten = <<>> /\ tempDiv = <<>>
    /\ converted \in Strings(FixUpAlphabet, MaxMarkdownLen)
    /\ markdown = converted

\* line 231: markdown = markdown.replace(/(\d)\\\./g, '$1.')
FixUp ==
    /\ phase = "idle"
    /\ phase' = "fixed"
    /\ markdown' = OrdinalFixUp(markdown)
    /\ UNCHANGED <<value, selectionStart, selectionEnd, clipboard, pending,
                   defaultPrevented, snapshot, calls, sanitized, rewritten,
                   tempDiv, converted, table, rendered>>

SpecFixUp == InitFixUp /\ [][FixUp]_vars

(***************************************************************************)
(* The table rules alone, on any logical table.                            *)
(***************************************************************************)
CellTexts ==
    { <<>>, S1("A"), S4("A", "B", "\n", "C"), S4("D", "D", "D", "D") }

LogicalTables ==
    [headers : UNION {[1..k -> CellTexts] : k \in 1..MaxCols},
     bodyRows : UNION {[1..n -> UNION {[1..k -> CellTexts] : k \in 0..MaxCols}] :
                          n \in 0..MaxRows}]

InitRender ==
    /\ EmptyEditor
    /\ clipboard = [html |-> <<>>, plain |-> <<>>]
    /\ NoEvent /\ NoTree
    /\ table \in LogicalTables
    /\ rendered = [block |-> 0]

\* the replacement of the table rule of one script block
RenderTable ==
    /\ phase = "idle"
    /\ phase' = "rendered"
    /\ \E block \in {1, 2} :
          rendered' = [block |-> block,
                       out |-> IF block = 1 THEN RenderV2(table) ELSE RenderOld(table)]
    /\ UNCHANGED <<value, selectionStart, selectionEnd, clipboard, pending,
                   defaultPrevented, snapshot, calls, sanitized, rewritten,
                   tempDiv, converted, markdown, table>>

SpecRender == InitRender /\ [][RenderTable]_vars

(***************************************************************************)
(* The properties of the paste listeners and of the sink.                  *)
(***************************************************************************)
\* the text one insertion of r into the editor of the snapshot leaves
InsertedOnce(r) ==
    SubSeq(snapshot.value, 1, snapshot.selectionStart) \o r
        \o SubSeq(snapshot.value, snapshot.selectionEnd + 1, Len(snapshot.value))

\* C1: once the listeners of a paste have run, the editor holds the text
\* before the selection, exactly one copy of the result, and the text after
\* the selection
C1_InsertedExactlyOnce ==
    phase = "done" =>
        \E block \in {1, 2} : value = InsertedOnce(TextToInsert(block))

\* C2: a call of insertTextAtCursor leaves the text before the selection,
\* the inserted text and the text after the selection, with the cursor
\* collapsed immediately after the inserted text
C2_InsertTextAtCursor ==
    (phase = "dispatching" /\ calls # <<>>) =>
        LET call == calls[Len(calls)]
            old == call.before
        IN  /\ value = SubSeq(old.value, 1, old.selectionStart) \o call.text
                          \o SubSeq(old.value, old.selectionEnd + 1, Len(old.value))
            /\ selectionStart = old.selectionStart + Len(call.text)
            /\ selectionEnd = old.selectionStart + Len(call.text)

\* C2 happens: a call has replaced a non-empty selection by a non-empty text
C2_Witness ==
    /\ phase = "dispatching" /\ calls # <<>>
    /\ calls[Len(calls)].before.selectionStart < calls[Len(calls)].before.selectionEnd
    /\ calls[Len(calls)].before.selectionEnd < Len(calls[Len(calls)].before.value)
    /\ calls[Len(calls)].text # <<>>

\* C3: a listener inserts the output of the HTML pipeline when the text/html
\* payload is not empty, and otherwise the text/plain payload as it is,
\* without running the pipeline
C3_PayloadSelection ==
    \A i \in DOMAIN calls :
        IF clipboard.html # <<>>
        THEN calls[i].text = Pipeline(clipboard.html, calls[i].block).markdown
        ELSE /\ calls[i].text = clipboard.plain
             /\ sanitized = <<>> /\ tempDiv = <<>> /\ converted = <<>>

\* C3 happens: a listener has inserted a plain payload that the ordinal
\* fix-up would have changed
C3_Witness ==
    /\ calls # <<>>
    /\ clipboard.html = <<>>
    /\ calls[1].text = clipboard.plain
    /\ OrdinalFixUp(clipboard.plain) # clipboard.plain

\* C4: after the sanitizer pass every attribute left has a name of the
\* allow-list, every attribute of the allow-list is kept with its value, and
\* the elements and text nodes are those of the parsed markup in their order
C4_AllowList ==
    sanitized # <<>> =>
        LET parsed == Parse(clipboard.html)
        IN  /\ DOMAIN sanitized = DOMAIN parsed
            /\ \A i \in DOMAIN parsed :
                  /\ sanitized[i].tag = parsed[i].tag
                  /\ sanitized[i].kids = parsed[i].kids
                  /\ sanitized[i].text = parsed[i].text
                  /\ \A k \in DOMAIN sanitized[i].attrs :
                        ToLowerCase(sanitized[i].attrs[k].name) \in
                            {"href", "src", "alt", "title", "class"}
                  /\ sanitized[i].attrs =
                        SelectSeq(parsed[i].attrs,
                                  LAMBDA a : ToLowerCase(a.name) \in
                                      {"href", "src", "alt", "title", "class"})

\* C4 happens: the pass has removed an attribute of an element and kept
\* another
C4_Witness ==
    /\ sanitized # <<>>
    /\ \E i \in DOMAIN sanitized :
          /\ sanitized[i].tag # "p"
          /\ Len(sanitized[i].attrs) = 1
          /\ Len(Parse(clipboard.html)[i].attrs) = 2

(***************************************************************************)
(* Header inference, stated on markup: what the pass is to make of a tree. *)
(***************************************************************************)
\* the markup of the nodes ks of a tree
RECURSIVE Markup(_, _)
Markup(dom, ks) ==
    [i \in DOMAIN ks |->
        [tag |-> dom[ks[i]].tag, attrs |-> dom[ks[i]].attrs,
         text |-> dom[ks[i]].text, kids |-> Markup(dom, dom[ks[i]].kids)]]

IsSection(m) == m.tag \in {"thead", "tbody", "tfoot"}
HoldsRow(m) == m.tag = "tr" \/ (IsSection(m) /\ \E j \in DOMAIN m.kids : m.kids[j].tag = "tr")
LacksHead(t) == \A i \in DOMAIN t.kids : t.kids[i].tag # "thead"

\* the place of the first row of a table: the child of the table that holds
\* it and, when that child is a section, the row's place in the section
FirstRowChild(t) ==
    IF \E i \in DOMAIN t.kids : HoldsRow(t.kids[i])
    THEN CHOOSE i \in DOMAIN t.kids :
            HoldsRow(t.kids[i]) /\ \A j \in 1..(i - 1) : ~HoldsRow(t.kids[j])
    ELSE 0
FirstRowOf(section) ==
    CHOOSE j \in DOMAIN section.kids :
        section.kids[j].tag = "tr" /\ \A k \in 1..(j - 1) : section.kids[k].tag # "tr"

RECURSIVE Promoted(_)
\* a row whose cells are header cells of the same inner content
PromotedRow(row) ==
    [row EXCEPT !.kids =
        [c \in DOMAIN row.kids |->
            IF row.kids[c].tag = "td"
            THEN [row.kids[c] EXCEPT !.tag = "th", !.kids = Promoted(@)]
            ELSE [row.kids[c] EXCEPT !.kids = Promoted(@)]]]
\* a table that lacks a head section, with the cells of its first row promoted
PromotedTable(t) ==
    LET first == FirstRowChild(t)
    IN  [t EXCEPT !.kids =
            [i \in DOMAIN t.kids |->
                IF i # first THEN [t.kids[i] EXCEPT !.kids = Promoted(@)]
                ELSE IF t.kids[i].tag = "tr" THEN PromotedRow(t.kids[i])
                ELSE [t.kids[i] EXCEPT !.kids =
                        [j \in DOMAIN t.kids[i].kids |->
                            IF j = FirstRowOf(t.kids[i])
                            THEN PromotedRow(t.kids[i].kids[j])
                            ELSE [t.kids[i].kids[j] EXCEPT !.kids = Promoted(@)]]]]]
\* the markup ms with the first row of every table lacking a head promoted
Promoted(ms) ==
    [i \in DOMAIN ms |->
        IF ms[i].tag = "table" /\ LacksHead(ms[i]) THEN PromotedTable(ms[i])
        ELSE [ms[i] EXCEPT !.kids = Promoted(@)]]

\* C5: header inference promotes exactly the cells of the first row of every
\* table that lacks a head section, keeping their inner content, and leaves
\* every other row and every table with a head section as it was
C5_HeaderInference ==
    tempDiv # <<>> =>
        Markup(tempDiv, tempDiv[1].kids) = Promoted(Markup(rewritten, rewritten[1].kids))

(***************************************************************************)
(* Checkbox detection and paragraph unwrapping, stated on the tree before  *)
(* the 'p, li' loop (sanitized) and the tree after it (rewritten).  The    *)
(* loop creates nodes and keeps the ids of the nodes it found.             *)
(***************************************************************************)
\* s starts with n white-space characters, a bracketed ' ', 'x' or 'X', and
\* k white-space characters, and no white space follows them
BracketPrefix(s, n, k) ==
    /\ n + 3 + k <= Len(s)
    /\ \A i \in 1..n : IsSpace(s[i])
    /\ s[n + 1] = "[" /\ s[n + 2] \in {" ", "x", "X"} /\ s[n + 3] = "]"
    /\ \A i \in (n + 4)..(n + 3 + k) : IsSpace(s[i])
    /\ (n + 3 + k = Len(s) \/ ~IsSpace(s[n + 4 + k]))

\* a paragraph or list item whose first child is a text node with the prefix
Detected(dom, el) ==
    /\ dom[el].tag \in {"p", "li"}
    /\ dom[el].kids # <<>>
    /\ dom[dom[el].kids[1]].tag = "#text"
    /\ \E n, k \in 0..Len(dom[dom[el].kids[1]].text) :
          BracketPrefix(dom[dom[el].kids[1]].text, n, k)

IsCheckbox(node) ==
    /\ node.tag = "input"
    /\ \E i \in DOMAIN node.attrs :
          node.attrs[i].name = "type" /\ node.attrs[i].value = <<"checkbox">>

\* C6: every paragraph or list item whose first child is a text node with
\* the bracket prefix loses the prefix from that text node and gets exactly
\* one disabled checkbox, checked iff the bracket holds x or X, immediately
\* before the text node; no other checkbox is created and every other text
\* node keeps its text
C6_CheckboxDetection ==
    rewritten # <<>> =>
        LET detected == {el \in DOMAIN sanitized : Detected(sanitized, el)}
        IN  /\ Len(rewritten) = Len(sanitized) + Cardinality(detected)
            /\ \A el \in detected :
                  LET f == sanitized[el].kids[1]
                      s == sanitized[f].text
                  IN  \E n, k \in 0..Len(s) :
                        /\ BracketPrefix(s, n, k)
                        /\ rewritten[f].text = SubSeq(s, n + 4 + k, Len(s))
                        /\ \E q \in DOMAIN rewritten :
                              \E i \in 2..Len(rewritten[q].kids) :
                                /\ rewritten[q].kids[i] = f
                                /\ rewritten[q].kids[i - 1] > Len(sanitized)
                                /\ IsCheckbox(rewritten[rewritten[q].kids[i - 1]])
                                /\ \E a \in DOMAIN rewritten[rewritten[q].kids[i - 1]].attrs :
                                      rewritten[rewritten[q].kids[i - 1]].attrs[a].name = "disabled"
                                /\ rewritten[rewritten[q].kids[i - 1]].checked
                                      = (s[n + 2] \in {"x", "X"})
            /\ \A t \in DOMAIN sanitized :
                  (sanitized[t].tag = "#text"
                      /\ \A el \in detected : sanitized[el].kids[1] # t)
                  => rewritten[t].text = sanitized[t].text

\* C6 happens: the loop has met a prefix with a capital X after white space
\* and a paragraph whose bracket text is not at the start of its first child
C6_Witness ==
    /\ rewritten # <<>>
    /\ \E el \in DOMAIN sanitized :
          /\ Detected(sanitized, el)
          /\ sanitized[sanitized[el].kids[1]].text[1] = " "
          /\ "X" \in Range(sanitized[sanitized[el].kids[1]].text)
    /\ \E el \in DOMAIN sanitized :
          /\ sanitized[el].tag = "p"
          /\ ~Detected(sanitized, el)
          /\ "[" \in Range(TextContent(sanitized, el))

\* the paragraph holds a checkbox once detection has run on it
HoldsCheckbox(dom, el) ==
    \/ Detected(dom, el)
    \/ \E k \in Range(Descendants(dom, el)) : IsCheckbox(dom[k])

InListItem(dom, el) ==
    /\ dom[el].tag = "p"
    /\ \E li \in DOMAIN dom : dom[li].tag = "li" /\ el \in Range(dom[li].kids)

\* the children ks with every paragraph that is to go replaced by its own
RECURSIVE Spliced(_, _)
Spliced(dom, ks) ==
    IF ks = <<>> THEN <<>>
    ELSE (IF InListItem(dom, Head(ks)) /\ HoldsCheckbox(dom, Head(ks))
          THEN dom[Head(ks)].kids ELSE <<Head(ks)>>) \o Spliced(dom, Tail(ks))

\* the children of a node of the tree after the loop that the loop found
FoundKids(el) == SelectSeq(rewritten[el].kids, LAMBDA k : k <= Len(sanitized))

\* the paragraph has gone and its children stand at its place, in order
Unwrapped(el) ==
    /\ rewritten[el].kids = <<>>
    /\ \A q \in DOMAIN rewritten : el \notin Range(rewritten[q].kids)
    /\ \E li \in DOMAIN sanitized :
          /\ el \in Range(sanitized[li].kids)
          /\ FoundKids(li) = Spliced(sanitized, sanitized[li].kids)

\* the paragraph is where it was, with the children it had
Kept(el) ==
    /\ FoundKids(el) = sanitized[el].kids
    /\ \E q \in DOMAIN sanitized :
          /\ el \in Range(sanitized[q].kids)
          /\ el \in Range(rewritten[q].kids)

\* C10: a paragraph is replaced by its children iff, after detection, it is
\* the child of a list item and holds a checkbox, whatever other element
\* children the list item has; every other paragraph stays where it was
C10_UnwrapInListItem ==
    rewritten # <<>> =>
        \A el \in DOMAIN sanitized :
            sanitized[el].tag = "p" =>
                /\ Unwrapped(el) <=>
                        (InListItem(sanitized, el) /\ HoldsCheckbox(sanitized, el))
                /\ Unwrapped(el) \/ Kept(el)

\* C10 as the specification states it: a paragraph is replaced by its
\* children iff, after detection, it is the sole element child of a list
\* item and holds a checkbox
C10_UnwrapSoleChild ==
    rewritten # <<>> =>
        \A el \in DOMAIN sanitized :
            sanitized[el].tag = "p" =>
                /\ Unwrapped(el) <=>
                        /\ InListItem(sanitized, el)
                        /\ HoldsCheckbox(sanitized, el)
                        /\ \A li \in DOMAIN sanitized :
                              el \in Range(sanitized[li].kids) =>
                                  \A k \in Range(sanitized[li].kids) :
                                      IsElement(sanitized[k]) => k = el
                /\ Unwrapped(el) \/ Kept(el)

\* C10 happens: a list item held a paragraph with a checkbox and another
\* element, and a paragraph without a checkbox
C10_Witness ==
    /\ rewritten # <<>>
    /\ \E li \in DOMAIN sanitized :
          /\ sanitized[li].tag = "li"
          /\ Len(sanitized[li].kids) = 2
          /\ \E a, b \in Range(sanitized[li].kids) :
                /\ a # b
                /\ sanitized[a].tag = "p" /\ HoldsCheckbox(sanitized, a)
                /\ Unwrapped(a)
                /\ sanitized[b].tag = "p" /\ ~HoldsCheckbox(sanitized, b)
                /\ Kept(b)

(***************************************************************************)
(* The line-break rule, the table widths and the ordinal fix-up.           *)
(***************************************************************************)
\* C7: whatever its attributes and whatever other rules are registered, a
\* br element of the converted tree is replaced by exactly one newline
C7_BrOneNewline ==
    tempDiv # <<>> =>
        \A k \in Range(Descendants(tempDiv, 1)) :
            tempDiv[k].tag = "br" =>
                \A block \in {1, 2} : ReplacementForNode(tempDiv, k, block) = <<"\n">>

\* the lengths of the lines of a text split at its newlines
LineLengths(s) ==
    LET breaks == {0, Len(s) + 1} \cup {i \in DOMAIN s : s[i] = "\n"}
    IN  { b - a - 1 : <<a, b>> \in
            { p \in breaks \X breaks :
                p[1] < p[2] /\ \A c \in breaks : ~(p[1] < c /\ c < p[2]) } }

\* max(3, longest line of header i, longest line of any body cell of column i)
WidthOfColumn(i) ==
    SetMax({3} \cup LineLengths(table.headers[i])
               \cup UNION { LineLengths(table.bodyRows[r][i]) :
                               r \in {q \in DOMAIN table.bodyRows :
                                         i \in DOMAIN table.bodyRows[q]} })

\* C8: the width of a column is max(3, longest line of its header, longest
\* line of its body cells), the separator has that many dashes, and every
\* header and body cell of the column is emitted padded to exactly that width
C8_ColumnWidths ==
    rendered.block # 0 =>
        /\ \A i \in DOMAIN table.headers :
              /\ rendered.out.colWidths[i] = WidthOfColumn(i)
              /\ rendered.out.separatorCells[i] = [k \in 1..WidthOfColumn(i) |-> "-"]
              /\ Len(rendered.out.headerCells[i]) = WidthOfColumn(i)
        /\ \A l \in DOMAIN rendered.out.bodyLines :
              \A j \in DOMAIN rendered.out.bodyLines[l] :
                  j \in DOMAIN table.headers =>
                      Len(rendered.out.bodyLines[l][j]) = WidthOfColumn(j)

\* the places of the backslashes between a digit and a period
EscapedOrdinals(s) ==
    { i \in 2..(Len(s) - 1) : s[i] = "\\" /\ IsDigit(s[i - 1]) /\ s[i + 1] = "." }

\* C9: the fix-up removes the backslash of every digit followed by an
\* escaped period and changes nothing else, and a second application
\* changes nothing
C9_OrdinalFixUp ==
    phase = "fixed" =>
        /\ Len(markdown) = Len(converted) - Cardinality(EscapedOrdinals(converted))
        /\ \A i \in DOMAIN converted :
              i \notin EscapedOrdinals(converted) =>
                  markdown[i - Cardinality({j \in EscapedOrdinals(converted) : j < i})]
                      = converted[i]
        /\ OrdinalFixUp(markdown) = markdown

\* C9 happens: the text held two ordinals to fix
C9_Witness ==
    /\ phase = "fixed"
    /\ Cardinality(EscapedOrdinals(converted)) = 2
    /\ markdown = <<"1", ".", "1", ".">>

\* C9 happens also on an escaped period that no digit precedes
C9_WitnessKept ==
    /\ phase = "fixed"
    /\ converted = <<"a", "\\", ".", "1", "\\", ".">>
    /\ markdown = <<"a", "\\", ".", "1", ".">>

(***************************************************************************)
(* The shape of the body lines of a rendered table.                        *)
(***************************************************************************)
\* the places that bound the lines of a text: before it, its newlines, after it
LineBreaks(s) == {0, Len(s) + 1} \cup {i \in DOMAIN s : s[i] = "\n"}

\* the number of lines of a text split at its newlines
LineCount(s) == Cardinality(LineBreaks(s)) - 1

\* line i of a text, empty when the text has fewer lines
LineOfText(s, i) ==
    IF i > LineCount(s) THEN <<>>
    ELSE LET a == CHOOSE b \in LineBreaks(s) :
                      Cardinality({c \in LineBreaks(s) : c < b}) = i - 1
             z == CHOOSE b \in LineBreaks(s) :
                      Cardinality({c \in LineBreaks(s) : c < b}) = i
         IN  SubSeq(s, a + 1, z - 1)

\* a text followed by blanks up to a width
PaddedTo(s, width) ==
    [k \in 1..(IF Len(s) > width THEN Len(s) ELSE width) |->
        IF k <= Len(s) THEN s[k] ELSE " "]

\* the lines a source row is to give: one cell for each header, a missing
\* cell or a missing line a blank of the column's width
LinesOfRow(row, widths) ==
    LET cell(j) == IF j \in DOMAIN row THEN row[j] ELSE <<>>
        n == SetMax({1} \cup {LineCount(cell(j)) : j \in DOMAIN table.headers})
    IN  [i \in 1..n |->
            [j \in DOMAIN table.headers |-> PaddedTo(LineOfText(cell(j), i), widths[j])]]

RECURSIVE LinesOfRows(_, _)
LinesOfRows(rows, widths) ==
    IF rows = <<>> THEN <<>>
    ELSE LinesOfRow(rows[1], widths) \o LinesOfRows(Tail(rows), widths)

\* C11: every emitted body line has as many cells as there are headers, a
\* short row being filled with blank cells of the column's width, and a row
\* is emitted as max(1, largest line count of its cells) lines, a cell's
\* missing lines being blanks of the column's width
C11_RowShape ==
    rendered.block # 0 =>
        /\ \A l \in DOMAIN rendered.out.bodyLines :
              Len(rendered.out.bodyLines[l]) = Len(table.headers)
        /\ rendered.out.bodyLines = LinesOfRows(table.bodyRows, rendered.out.colWidths)

====
